---- MODULE Spec2Model ----
(***************************************************************************)
(* Model of zabbixbot's `zbx-setup` routine (src/main.rs): the JSON-RPC    *)
(* client ZbxClient (rpc, login) and the reconciliation routine zbx_setup, *)
(* run against a Zabbix server whose media types, users and actions are    *)
(* the remote state.                                                       *)
(***************************************************************************)
EXTENDS Integers, Sequences, FiniteSets, TLC

(* ------------------------------ bounds -------------------------------- *)
MaxItems == 2       \* parameters of the Telegram media type plus medias of
                    \* the target user, in the remote state a behaviour starts in
MaxRuns  == 2       \* how many times zbx-setup is run in succession
MaxLines == 3       \* lines of the allow-list file
MaxTasks == 2       \* messages the dispatcher is handling at the same time

(* ------------------------- Option<T> and JSON ------------------------- *)
\* Option<String>, Option<Vec<..>>: `v` is meaningful only when `some`
NoneStr == [some |-> FALSE, v |-> ""]
NoneSeq == [some |-> FALSE, v |-> <<>>]
Some(x) == [some |-> TRUE, v |-> x]

\* serde_json::Value of a scalar or of a one-element array: a tagged value;
\* a key that the object does not carry has the tag "absent"
JStr(s)  == [t |-> "string", v |-> s]
JArr1(s) == [t |-> "array", v |-> s]
JNum(s)  == [t |-> "number", v |-> s]
JAbsent  == [t |-> "absent", v |-> ""]

\* serde_json::Value of a list result
JList(items) == [t |-> "array", items |-> items]
JNotList     == [t |-> "bool", items |-> <<>>]
JNoList      == [t |-> "absent", items |-> <<>>]

\* Value::as_str (on the result of Value::get)
as_str(j) == IF j.t = "string" THEN Some(j.v) ELSE NoneStr

\* Value::as_array (on the result of Value::get)
as_array(j) == IF j.t = "array" THEN Some(j.items) ELSE NoneSeq

(* ------------------------------ texts --------------------------------- *)
\* A text is a sequence of fragments; the two phrases login looks for are
\* fragments of their own, so `contains` is membership of the fragment.
PInvalidParams == "Invalid params"
PUnexpectedUsername == "unexpected parameter \"username\""

contains(text, phrase) == \E i \in 1..Len(text) : text[i] = phrase

\* {:?} of a string fragment: Debug escapes the double quotes, so a fragment
\* holding quotes is no longer the same text.
DebugStr(s) == IF s = PUnexpectedUsername
               THEN "unexpected parameter \\\"username\\\""
               ELSE s

RECURSIVE DebugText(_)
DebugText(text) == IF text = <<>> THEN <<>>
                   ELSE <<DebugStr(Head(text))>> \o DebugText(Tail(text))

\* {:?} of Option<serde_json::Value> holding a string
DebugData(data) == IF data.some
                   THEN <<"Some(String(">> \o DebugText(data.v) \o <<"))">>
                   ELSE <<"None">>

(* --------------------------- configuration ---------------------------- *)
user        == "Admin"
pass        == "zabbix"
user_alias  == "Admin"
chat_id     == "123"
action_name == "Send Telegram alerts"
TelegramName == "Telegram"


(* ------------------------------ Transport ----------------------------- *)
\* What the HTTP exchange of one rpc call can come back with.  `net` is a
\* failure of send() or text(); `parses` tells whether the body is an
\* RpcResponse; result and error are the envelope's optional members.
NoError == [some |-> FALSE,
            v |-> [code |-> 0, message |-> <<>>, data |-> NoneSeq]]
SomeError(code, message, data) ==
    [some |-> TRUE, v |-> [code |-> code, message |-> message, data |-> data]]

HttpResp(net, status, text, parses, result, error) ==
    [net |-> net, status |-> status,
     body |-> [text |-> text, parses |-> parses,
               result |-> result, error |-> error]]

\* anyhow::Result<R>: Ok(val) or Err whose Display is msg; `kind` names the
\* return statement of rpc that produced the error
Ok(val) == [ok |-> TRUE, val |-> val, kind |-> "", msg |-> <<>>]
Err(kind, msg, dummy) == [ok |-> FALSE, val |-> dummy, kind |-> kind, msg |-> msg]

\* StatusCode::is_success
is_success(status) == status >= 200 /\ status <= 299

\* {} of a reqwest::StatusCode, for the statuses that occur
StatusText(status) ==
    CASE status = 200 -> "200 OK"
      [] status = 500 -> "500 Internal Server Error"
      [] OTHER        -> "000"

\* as Rpc, but looking at the envelope's result before its error
Rpc_ResultFirst(resp, de, dummy) ==
    IF resp.net
    THEN Err("network", <<"error sending request">>, dummy)
    ELSE IF ~is_success(resp.status)
    THEN Err("http", <<"Zabbix API HTTP error:", StatusText(resp.status)>>
                      \o resp.body.text, dummy)
    ELSE IF ~resp.body.parses
    THEN Err("parse", <<"Unable to parse JSON-RPC response:">> \o resp.body.text, dummy)
    ELSE IF resp.body.result.some /\ de.some
    THEN Ok(de.v)
    ELSE IF resp.body.error.some
    THEN Err("rpc", <<"Zabbix API error">> \o resp.body.error.v.message
                     \o DebugData(resp.body.error.v.data), dummy)
    ELSE IF ~resp.body.result.some
    THEN Err("protocol", <<"Missing result in JSON-RPC response">>, dummy)
    ELSE Err("deserialize", <<"Unable to deserialize JSON-RPC result to expected type">>, dummy)

\* ZbxClient::rpc after the request was sent: de is serde_json::from_value
\* of the envelope's result for the expected type R (an Option), dummy a
\* value of type R
Rpc(resp, de, dummy) ==
    IF resp.net
    THEN Err("network", <<"error sending request">>, dummy)
    ELSE IF ~is_success(resp.status)
    THEN Err("http", <<"Zabbix API HTTP error:", StatusText(resp.status)>>
                      \o resp.body.text, dummy)
    ELSE IF ~resp.body.parses
    THEN Err("parse", <<"Unable to parse JSON-RPC response:">> \o resp.body.text, dummy)
    ELSE IF resp.body.error.some
    THEN Err("rpc", <<"Zabbix API error">> \o resp.body.error.v.message
                     \o DebugData(resp.body.error.v.data), dummy)
    ELSE IF ~resp.body.result.some
    THEN Err("protocol", <<"Missing result in JSON-RPC response">>, dummy)
    ELSE IF ~de.some
    THEN Err("deserialize", <<"Unable to deserialize JSON-RPC result to expected type">>, dummy)
    ELSE Ok(de.v)

\* as RpcRequest, but never attaching the token
RpcRequest_NoAuth(method, params, clientAuth) ==
    [jsonrpc |-> "2.0", method |-> method, params |-> params, id |-> 1,
     auth |-> NoneStr]

\* RpcRequest as built by rpc: the auth member is self.auth.clone()
RpcRequest(method, params, clientAuth) ==
    [jsonrpc |-> "2.0", method |-> method, params |-> params, id |-> 1,
     auth |-> clientAuth]

\* serde_json::from_value::<String>
DeString(j) == as_str(j)

\* serde_json::from_value::<serde_json::Value>
DeValue(j) == Some(j)

(* ------------------------ media type parameters ---------------------- *)
\* One element of MediaType.parameters, a HashMap<String, String>, by the
\* two keys the code looks at
Param(name, value) == [name |-> name, value |-> value]

\* str::to_lowercase on the parameter names that occur
to_lowercase(s) ==
    CASE s = "Token"    -> "token"
      [] s = "botToken" -> "bottoken"
      [] s = "Foo"      -> "foo"
      [] OTHER          -> s

\* the test of the loop body: a token-named parameter whose value is not
\* the bot token (or is missing)
TokenStale(p, token) ==
    /\ p.name.some
    /\ to_lowercase(p.name.v) \in {"token", "bottoken"}
    /\ (IF p.value.some THEN p.value.v # token ELSE TRUE)

\* as UpdatedParams, but keeping only the rewritten parameters
RECURSIVE UpdatedParams_Delta(_, _)
UpdatedParams_Delta(params, token) ==
    IF params = <<>> THEN <<>>
    ELSE (IF TokenStale(Head(params), token)
          THEN <<[Head(params) EXCEPT !.value = Some(token)]>> ELSE <<>>)
         \o UpdatedParams_Delta(Tail(params), token)

\* updated_params after the loop
UpdatedParams(params, token) ==
    [i \in 1..Len(params) |->
        IF TokenStale(params[i], token)
        THEN [params[i] EXCEPT !.value = Some(token)]
        ELSE params[i]]

\* as NeedsUpdate, but not comparing the value
NeedsUpdate_AnyToken(params, token) ==
    \E i \in 1..Len(params) :
        /\ params[i].name.some
        /\ to_lowercase(params[i].name.v) \in {"token", "bottoken"}

\* needs_update after the loop
NeedsUpdate(params, token) ==
    \E i \in 1..Len(params) : TokenStale(params[i], token)

\* MtUpdateParams
MtUpdateParams(mtid, params) == [mediatypeid |-> mtid, parameters |-> params]

(* ------------------------------ user medias --------------------------- *)
\* one element of the "medias" array of user.get, as a JSON object
MediaJson(mediaid, mtid, sendto, active, severity, period) ==
    [mediaid |-> mediaid, mediatypeid |-> mtid, sendto |-> sendto,
     active |-> active, severity |-> severity, period |-> period]

\* struct UserMedia
UserMedia(mtid, sendto, active, severity, period) ==
    [mediatypeid |-> mtid, sendto |-> sendto, active |-> active,
     severity |-> severity, period |-> period]

\* serde_json::from_value::<UserMedia>(m).ok(): all five members must be
\* strings; members the struct does not name are ignored
DeUserMedia(m) ==
    IF /\ m.mediatypeid.t = "string" /\ m.sendto.t = "string"
       /\ m.active.t = "string" /\ m.severity.t = "string"
       /\ m.period.t = "string"
    THEN Some(UserMedia(m.mediatypeid.v, m.sendto.v, m.active.v,
                        m.severity.v, m.period.v))
    ELSE [some |-> FALSE, v |-> UserMedia("", "", "", "", "")]

\* arr.iter().filter_map(|m| from_value::<UserMedia>(m.clone()).ok()).collect()
RECURSIVE FilterMapMedias(_)
FilterMapMedias(arr) ==
    IF arr = <<>> THEN <<>>
    ELSE (IF DeUserMedia(Head(arr)).some THEN <<DeUserMedia(Head(arr)).v>> ELSE <<>>)
         \o FilterMapMedias(Tail(arr))

\* let mut medias = u.get("medias").and_then(as_array).map(..).unwrap_or_default()
ParseMedias(uj) ==
    IF as_array(uj.medias).some THEN FilterMapMedias(as_array(uj.medias).v)
    ELSE <<>>

\* as MediaExists, but comparing sendto with the media type id
MediaExists_WrongField(ms, mtid, chat) ==
    \E i \in 1..Len(ms) : ms[i].mediatypeid = mtid /\ ms[i].sendto = mtid

\* medias.iter().any(|m| m.mediatypeid == mediatypeid && m.sendto == chat_id)
MediaExists(ms, mtid, chat) ==
    \E i \in 1..Len(ms) : ms[i].mediatypeid = mtid /\ ms[i].sendto = chat

\* the UserMedia pushed when none exists
NewMedia(mtid, chat) == UserMedia(mtid, chat, "0", "63", "1-7,00:00-24:00")

\* UserUpdateParams
UserUpdateParams(uid, ms) == [userid |-> uid, medias |-> ms]

\* Serialize for UserMedia: the JSON object the request carries
SerializeUserMedia(m) ==
    MediaJson(JAbsent, JStr(m.mediatypeid), JStr(m.sendto), JStr(m.active),
              JStr(m.severity), JStr(m.period))

(* -------------------------------- actions ----------------------------- *)
Subject == "{HOST.NAME} | Problem: {EVENT.NAME}"
Message == "Problem started at {EVENT.TIME} on {EVENT.DATE} ..."

\* as ActionCreate, but with the two identifiers swapped
ActionCreate_Swapped(name, mtid, uid) ==
    [name |-> name, eventsource |-> 0, status |-> 0,
     operations |-> << [operationtype |-> 0,
                        opmessage |-> [default_msg |-> 0, mediatypeid |-> uid,
                                       subject |-> Subject, message |-> Message],
                        opmessage_usr |-> << [userid |-> mtid] >>] >>]

\* ActionCreate with its single Operation
ActionCreate(name, mtid, uid) ==
    [name |-> name, eventsource |-> 0, status |-> 0,
     operations |-> << [operationtype |-> 0,
                        opmessage |-> [default_msg |-> 0, mediatypeid |-> mtid,
                                       subject |-> Subject, message |-> Message],
                        opmessage_usr |-> << [userid |-> uid] >>] >>]

\* as ActionsEmpty, but taking every answer for an empty one
ActionsEmpty_Always(actions) == TRUE

\* actions.is_empty()
ActionsEmpty(actions) == Len(actions) = 0

(* ----------------------- the Zabbix server (remote) -------------------- *)
\* media types, by the members mediatype.get is asked for
MediaTypeJson(id, name, params) ==
    [mediatypeid |-> id, name |-> name, status |-> Some("0"), parameters |-> params]

\* users, by the members user.get is asked for (selectMedias: "extend")
UserJson(userid, alias, ms) == [userid |-> userid, alias |-> alias, medias |-> ms]

RECURSIVE SelectByName(_, _)
SelectByName(objs, name) ==
    IF objs = <<>> THEN <<>>
    ELSE (IF Head(objs).name = name THEN <<Head(objs)>> ELSE <<>>)
         \o SelectByName(Tail(objs), name)

RECURSIVE SelectByAlias(_, _)
SelectByAlias(objs, alias) ==
    IF objs = <<>> THEN <<>>
    ELSE (IF Head(objs).alias = alias THEN <<Head(objs)>> ELSE <<>>)
         \o SelectByAlias(Tail(objs), alias)

\* mediatype.update: the media type's parameters become the list sent
SrvMediatypeUpdate(mts, p) ==
    [i \in 1..Len(mts) |->
        IF mts[i].mediatypeid = p.mediatypeid
        THEN [mts[i] EXCEPT !.parameters = Some(p.parameters)]
        ELSE mts[i]]

\* user.update: the user's medias become the list sent
SrvUserUpdate(us, p) ==
    [i \in 1..Len(us) |->
        IF us[i].userid = JStr(p.userid)
        THEN [us[i] EXCEPT !.medias =
                 JList([k \in 1..Len(p.medias) |-> SerializeUserMedia(p.medias[k])])]
        ELSE us[i]]

\* action.create: one more action
SrvActionCreate(acts, p) == Append(acts, p)

(* --------------------------- sample remote data ----------------------- *)
BoundedSeq(S, n) == UNION {[1..k -> S] : k \in 0..n}

SampleParams ==
    { Param(Some("Token"), Some("OLD")),
      Param(Some("Foo"), Some("Bar")),
      Param(Some("botToken"), NoneStr) }

TelegramId == "5"
EmailId == "1"

SampleMedias ==
    { \* Telegram media of the configured chat, as user.get returns it
      MediaJson(JStr("11"), JStr(TelegramId), JStr(chat_id), JStr("0"), JStr("63"), JStr("1-7,00:00-24:00")),
      \* Telegram media of another chat, no mediaid
      MediaJson(JAbsent, JStr(TelegramId), JStr("456"), JStr("1"), JStr("60"), JStr("1-5,09:00-18:00")),
      \* e-mail media: sendto is an array
      MediaJson(JStr("12"), JStr(EmailId), JArr1("ops@example.com"), JStr("0"), JStr("63"), JStr("1-7,00:00-24:00")),
      \* Telegram media of the configured chat without a period
      MediaJson(JStr("13"), JStr(TelegramId), JStr(chat_id), JStr("0"), JStr("63"), JAbsent) }

EmailMediaType == MediaTypeJson(EmailId, "Email", NoneSeq)
GuestUser == UserJson(JStr("2"), "guest", JList(<<>>))
AdminId == "1"
OtherAction == ActionCreate("Report problems to Zabbix administrators", EmailId, AdminId)
ExistingAction == ActionCreate(action_name, EmailId, "2")

\* the media types a behaviour can start with: no Telegram media type, one
\* without parameters, or one with up to n parameters
InitMediatypes(n) ==
    { <<EmailMediaType>> }
    \cup { <<EmailMediaType, MediaTypeJson(TelegramId, TelegramName, NoneSeq)>> }
    \cup { <<EmailMediaType, MediaTypeJson(TelegramId, TelegramName, Some(ps))>> :
              ps \in BoundedSeq(SampleParams, n) }

\* the number of parameters of the Telegram media type
ParamCount(mts) ==
    IF Len(mts) >= 2 /\ mts[2].parameters.some THEN Len(mts[2].parameters.v) ELSE 0

\* the users a behaviour can start with: no user of the alias, one without
\* a userid, one without medias, or one with up to n medias
InitUsers(n) ==
    { <<GuestUser>> }
    \cup { <<GuestUser, UserJson(JAbsent, user_alias, JList(<<>>))>> }
    \cup { <<GuestUser, UserJson(JStr(AdminId), user_alias, JNoList)>> }
    \cup { <<GuestUser, UserJson(JStr(AdminId), user_alias, JList(ms))>> :
              ms \in BoundedSeq(SampleMedias, n) }

InitActions == { <<OtherAction>>, <<OtherAction, ExistingAction>> }

(* ------------------------ responses of the server -------------------- *)
NoScalar == [some |-> FALSE, v |-> JAbsent]
NoList   == [some |-> FALSE, v |-> JNoList]

BodyPlain   == <<"Internal Server Error">>
BodyInvalid == <<"upstream:", PInvalidParams>>

\* the Zabbix >= 5.x answer to a login with a member it does not know
ErrUnexpectedUsername ==
    SomeError(-32602, <<PInvalidParams, ".">>,
              Some(<<"Invalid parameter \"/\":", PUnexpectedUsername, ".">>))
ErrNoPermissions ==
    SomeError(-32500, <<"Application error.">>, Some(<<"No permissions to call">>))
ErrQuotedInData ==
    SomeError(-32500, <<"Application error.">>, Some(<<PUnexpectedUsername>>))

\* the token user.login returns
SessionId == "0424bd59b807674191e7d77572075f33"

\* failures any call can meet; none is the result to fill in: the request
\* or the answer is lost, the server answers 500, the API reports an error
Failures(none) ==
    { HttpResp(TRUE, 0, <<>>, FALSE, none, NoError),
      HttpResp(FALSE, 500, BodyPlain, FALSE, none, NoError),
      HttpResp(FALSE, 200, <<>>, TRUE, none, ErrNoPermissions) }

Success(result) == HttpResp(FALSE, 200, <<>>, TRUE, Some(result), NoError)

LoginResponses ==
    Failures(NoScalar)
    \cup { HttpResp(FALSE, 500, BodyInvalid, FALSE, NoScalar, NoError),
           HttpResp(FALSE, 200, BodyPlain, FALSE, NoScalar, NoError),
           HttpResp(FALSE, 200, <<>>, TRUE, NoScalar, NoError),
           HttpResp(FALSE, 200, <<>>, TRUE, NoScalar, ErrUnexpectedUsername),
           HttpResp(FALSE, 200, <<>>, TRUE, NoScalar, ErrQuotedInData),
           HttpResp(FALSE, 200, <<>>, TRUE, Some(JStr(SessionId)), ErrNoPermissions),
           HttpResp(FALSE, 500, BodyPlain, TRUE, Some(JStr(SessionId)), NoError),
           Success(JNum("1")),
           Success(JStr(SessionId)) }

ListResponses(items) ==
    Failures(NoList) \cup { Success(JNotList), Success(JList(items)) }

WriteResponses == Failures(NoScalar) \cup { Success(JStr("ok")) }

\* serde_json::from_value::<Vec<MediaType>> and ::<Vec<serde_json::Value>>
DeVec(j) == as_array(j)

(* --------------------------- allow-list file -------------------------- *)
\* text is a sequence of characters, a character a string of length one
DigitChars == <<"0", "1", "2", "3", "4", "5", "6", "7", "8", "9">>
Digit == {DigitChars[k] : k \in 1..10}
DigitVal(c) == CHOOSE d \in 0..9 : DigitChars[d + 1] = c

\* char::is_whitespace, for the characters that occur
is_whitespace(c) == c \in {" ", "\t"}

RECURSIVE trim_start(_)
trim_start(t) ==
    IF t # <<>> /\ is_whitespace(Head(t)) THEN trim_start(Tail(t)) ELSE t

RECURSIVE trim_end(_)
trim_end(t) ==
    IF t # <<>> /\ is_whitespace(t[Len(t)]) THEN trim_end(SubSeq(t, 1, Len(t) - 1))
    ELSE t

\* as trim, but leaving the whitespace at the end
trim_StartOnly(t) == trim_start(t)

\* str::trim
trim(t) == trim_end(trim_start(t))

\* str::starts_with(char)
starts_with(t, c) == t # <<>> /\ t[1] = c

\* an i64 is a sign and the decimal digits of its magnitude without leading
\* zeros (none for 0)
I64(neg, mag) == [neg |-> neg /\ mag # <<>>, mag |-> mag]
I64Max == <<"9", "2", "2", "3", "3", "7", "2", "0", "3", "6", "8", "5", "4", "7", "7", "5", "8", "0", "7">>
I64MinMag == <<"9", "2", "2", "3", "3", "7", "2", "0", "3", "6", "8", "5", "4", "7", "7", "5", "8", "0", "8">>

\* a > b for magnitudes
Exceeds(a, b) ==
    \/ Len(a) > Len(b)
    \/ /\ Len(a) = Len(b)
       /\ \E i \in 1..Len(a) :
             /\ DigitVal(a[i]) > DigitVal(b[i])
             /\ \A k \in 1..(i - 1) : a[k] = b[k]

ParseOk(v) == [ok |-> TRUE, val |-> v]
ParseErr == [ok |-> FALSE, val |-> I64(FALSE, <<>>)]

\* the digit loop of from_str_radix: result = result * 10 +/- digit, checked
RECURSIVE Accumulate(_, _, _)
Accumulate(digits, mag, is_positive) ==
    IF digits = <<>> THEN ParseOk(I64(~is_positive, mag))
    ELSE IF Head(digits) \notin Digit THEN ParseErr
    ELSE LET result == IF mag = <<>> /\ Head(digits) = "0" THEN <<>>
                       ELSE Append(mag, Head(digits))
         IN IF Exceeds(result, IF is_positive THEN I64Max ELSE I64MinMag)
            THEN ParseErr
            ELSE Accumulate(Tail(digits), result, is_positive)

\* str::parse::<i64>: an optional sign, then one or more decimal digits
ParseI64(src) ==
    IF src = <<>> THEN ParseErr
    ELSE IF src \in {<<"+">>, <<"-">>} THEN ParseErr
    ELSE IF src[1] = "+" THEN Accumulate(Tail(src), <<>>, TRUE)
    ELSE IF src[1] = "-" THEN Accumulate(Tail(src), <<>>, FALSE)
    ELSE Accumulate(src, <<>>, TRUE)

\* the file at ALLOWED_USERS_PATH: absent, not readable, or its lines
FileMissing == [state |-> "missing", lines |-> <<>>]
FileUnreadable == [state |-> "unreadable", lines |-> <<>>]
FileOf(ls) == [state |-> "ok", lines |-> ls]

SampleLines ==
    { <<"#", " ", "c", "o", "m", "m", "e", "n", "t">>,
      <<" ", " ", "1", "2", "3", "4", "5", " ", " ">>,
      <<>>,
      <<"n", "o", "t", "a", "n", "u", "m", "b", "e", "r">>,
      <<"7">>,
      <<"+", "7">>,
      <<"-", "5">>,
      <<"-">>,
      <<"9", "2", "2", "3", "3", "7", "2", "0", "3", "6", "8", "5", "4", "7", "7", "5", "8", "0", "7">>,
      <<"9", "2", "2", "3", "3", "7", "2", "0", "3", "6", "8", "5", "4", "7", "7", "5", "8", "0", "8">>,
      <<"-", "9", "2", "2", "3", "3", "7", "2", "0", "3", "6", "8", "5", "4", "7", "7", "5", "8", "0", "8">>,
      <<"-", "9", "2", "2", "3", "3", "7", "2", "0", "3", "6", "8", "5", "4", "7", "7", "5", "8", "0", "9">>,
      <<"\t", "0", "0", "7", " ">> }

Files(n) == {FileMissing, FileUnreadable} \cup {FileOf(ls) : ls \in BoundedSeq(SampleLines, n)}

(* ------------------------------ the bot ------------------------------- *)
\* Result<HashSet<i64>>
NoRet == [ok |-> FALSE, val |-> {}]

\* msg.from(): the sender's UserId, a u64 given by its decimal digits
NoSender == [some |-> FALSE, v |-> <<>>]
Senders ==
    { NoSender, Some(<<"7">>), Some(<<"8">>), Some(<<"1", "8", "4", "4", "6", "7", "4", "4", "0", "7", "3", "7", "0", "9", "5", "5", "1", "6", "1", "1">>) }

TwoPow64 == <<"1", "8", "4", "4", "6", "7", "4", "4", "0", "7", "3", "7", "0", "9", "5", "5", "1", "6", "1", "6">>

RECURSIVE StripZeros(_)
StripZeros(t) == IF t # <<>> /\ Head(t) = "0" THEN StripZeros(Tail(t)) ELSE t

PadTo(b, n) == [i \in 1..n |-> IF i <= n - Len(b) THEN "0" ELSE b[i - (n - Len(b))]]

\* a - b digit by digit, for texts of one length and a >= b
RECURSIVE SubDigits(_, _, _)
SubDigits(a, b, borrow) ==
    IF a = <<>> THEN <<>>
    ELSE LET n == Len(a)
             d == DigitVal(a[n]) - DigitVal(b[n]) - borrow
         IN Append(SubDigits(SubSeq(a, 1, n - 1), SubSeq(b, 1, n - 1),
                             IF d < 0 THEN 1 ELSE 0),
                   DigitChars[((d + 10) % 10) + 1])

\* u.id.0 as i64: values above i64::MAX wrap around by 2^64
AsI64(id) ==
    IF Exceeds(id, I64Max)
    THEN I64(TRUE, StripZeros(SubDigits(TwoPow64, PadTo(id, Len(TwoPow64)), 0)))
    ELSE I64(FALSE, id)

NoUid == [some |-> FALSE, v |-> I64(FALSE, <<>>)]

\* the texts the handlers send; the two Russian ones are given in English
AccessDenied == "Access denied"
LoginSuccessful == "Login successful"
UsageHint == "Use /start to check access or /id to get your ID"
Descriptions == "Command::descriptions()"
YourId == "Your Telegram ID: {}"

\* a handler call: the message it got and how far it is
IdleTask ==
    [pc |-> "idle", cmd |-> "", from |-> NoSender, user_id |-> NoUid,
     authorized |-> FALSE, replies |-> <<>>]

\* bot.send_message(msg.chat.id, text).await
Sent_message(task, text, arg, delivered) ==
    Append(task.replies, [text |-> text, arg |-> arg, delivered |-> delivered])

\* the files the bot is started with
BotFiles ==
    { FileMissing, FileUnreadable, FileOf(<< <<"7">>, <<"-", "5">>, <<"#", " ", "c">> >>) }

(* --------------------------------- state ------------------------------ *)
VARIABLES
    zbxMediatypes,   \* remote: the media types
    zbxUsers,        \* remote: the users with their medias
    zbxActions,      \* remote: the actions
    bot_token,       \* env TELEGRAM_BOT_TOKEN / ZBX_BOT_TOKEN, an Option
    auth,            \* ZbxClient.auth
    authWrites,      \* how often this run assigned ZbxClient.auth
    pc,              \* the call zbx_setup is about to make, or its outcome
    mt,              \* zbx_setup's mt
    mediatypeid,     \* zbx_setup's mediatypeid
    updated_params,  \* zbx_setup's updated_params
    u,               \* zbx_setup's u
    userid,          \* zbx_setup's userid
    medias,          \* zbx_setup's medias
    reqs,            \* the requests this run has sent, with their outcome
    run,             \* which run of zbx-setup this is
    history,         \* outcome of, and remote state after, each finished run
    zbx0,            \* the remote state the first run started from
    file,            \* the file at ALLOWED_USERS_PATH
    mainpc,          \* where main is
    row,             \* read_allowed_users: lines of the file done
    set,             \* read_allowed_users: set
    warned,          \* read_allowed_users: rows it warned about
    ret,             \* what read_allowed_users returned
    allowed_users,   \* AppState.allowed_users
    tasks            \* the handler calls the dispatcher is running

remote == <<zbxMediatypes, zbxUsers, zbxActions>>
locals == <<mt, mediatypeid, updated_params, u, userid, medias>>
vars == <<zbxMediatypes, zbxUsers, zbxActions, bot_token, auth, authWrites, pc,
          mt, mediatypeid, updated_params, u, userid, medias, reqs, run, history,
          zbx0, file, mainpc, row, set, warned, ret, allowed_users, tasks>>
\* the state of the bot mode
botvars == <<file, mainpc, row, set, warned, ret, allowed_users, tasks>>
\* what no step of zbx_setup touches
other == <<zbx0, botvars>>
\* the state of the zbx-setup mode
zbxvars == <<remote, locals, bot_token, auth, authWrites, pc, reqs, run, history, zbx0>>

NoMt == [mediatypeid |-> "", name |-> "", status |-> NoneStr, parameters |-> NoneSeq]
NoUser == UserJson(JAbsent, "", JNoList)

Init ==
    /\ zbxMediatypes \in InitMediatypes(MaxItems)
    /\ zbxUsers \in InitUsers(MaxItems - ParamCount(zbxMediatypes))
    /\ zbxActions \in InitActions
    /\ bot_token \in {NoneStr, Some("NEW")}
    /\ auth = NoneStr
    /\ authWrites = 0
    /\ pc = "login"
    /\ mt = NoMt
    /\ mediatypeid = ""
    /\ updated_params = <<>>
    /\ u = NoUser
    /\ userid = ""
    /\ medias = <<>>
    /\ reqs = <<>>
    /\ run = 1
    /\ history = <<>>
    /\ zbx0 = [mediatypes |-> zbxMediatypes, users |-> zbxUsers, actions |-> zbxActions]
    /\ mainpc = "zbx-setup"
    /\ file = FileMissing
    /\ row = 0
    /\ set = {}
    /\ warned = {}
    /\ ret = NoRet
    /\ allowed_users = {}
    /\ tasks = [t \in 1..MaxTasks |-> IdleTask]

\* one sent request and what rpc returned for it
Sent(req, resp, res) ==
    [req |-> req, ok |-> res.ok, kind |-> res.kind, error |-> resp.body.error,
     result |-> resp.body.result, resp |-> resp, msg |-> res.msg]

\* as Try, but starting over with the login after an Err
Try_Again(res, next) == IF res.ok THEN next ELSE "login"

\* as Try, but dropping the Err
Try_Ignore(res, next) == next

\* the `?` on a Result: go on with an Ok, return the Err
Try(res, next) == IF res.ok THEN next ELSE "failed"

\* as OkOrElse, but going on with a None
OkOrElse_Ignore(some, next) == next

\* Option::ok_or_else(..)? : go on with a Some, return an Err for a None
OkOrElse(some, next) == IF some THEN next ELSE "failed"

\* main returns zbx_setup's Result once it is Ok(()) or an Err
Returned(next, mts, us, acts) ==
    IF next \in {"done", "failed"}
    THEN Append(history, [ok |-> (next = "done"), mediatypes |-> mts,
                          users |-> us, actions |-> acts])
    ELSE history

(* ------------------------------ ZbxClient::login ---------------------- *)
ParamsNew(usr, password) == [username |-> usr, password |-> password]
ParamsOld(usr, password) == [user |-> usr, password |-> password]

\* as ShouldFallback, but looking for the second phrase only
ShouldFallback_OnePhrase(msg) == contains(msg, PUnexpectedUsername)

\* msg.contains("Invalid params") || msg.contains("unexpected parameter \"username\"")
ShouldFallback(msg) ==
    contains(msg, PInvalidParams) \/ contains(msg, PUnexpectedUsername)

\* the old-schema request is sent, and has an answer, after this answer to
\* the new-schema request
SecondLogin(r1) ==
    LET try_new == Rpc(r1, DeString(r1.body.result.v), "")
    IN ~try_new.ok /\ ShouldFallback(try_new.msg)

\* zbx.login(&user, &pass).await? : r1 answers the new-schema request, r2
\* the old-schema request if one is sent
Login ==
    /\ pc = "login"
    /\ \E r1 \in LoginResponses :
       \E r2 \in (IF SecondLogin(r1) THEN LoginResponses ELSE {r1}) :
         LET req1 == RpcRequest("user.login", ParamsNew(user, pass), auth)
             try_new == Rpc(r1, DeString(r1.body.result.v), "")
             req2 == RpcRequest("user.login", ParamsOld(user, pass), auth)
             old == Rpc(r2, DeString(r2.body.result.v), "")
             fallback == ~try_new.ok /\ ShouldFallback(try_new.msg)
             ok == IF try_new.ok THEN TRUE ELSE (fallback /\ old.ok)
             next == IF try_new.ok THEN "mediatype_get"
                     ELSE IF fallback THEN Try(old, "mediatype_get")
                     ELSE "failed"
         IN /\ reqs' = IF fallback
                       THEN <<Sent(req1, r1, try_new), Sent(req2, r2, old)>>
                       ELSE <<Sent(req1, r1, try_new)>>
            /\ auth' = IF try_new.ok THEN Some(try_new.val)
                       ELSE IF fallback /\ old.ok THEN Some(old.val)
                       ELSE auth
            /\ authWrites' = IF ok THEN authWrites + 1 ELSE authWrites
            /\ pc' = next
            /\ history' = Returned(next, zbxMediatypes, zbxUsers, zbxActions)
    /\ UNCHANGED other
    /\ UNCHANGED <<remote, locals, bot_token, run>>

(* -------------------------------- zbx_setup --------------------------- *)
MtGetParams ==
    [output |-> <<"mediatypeid", "name", "parameters", "status">>,
     filter |-> [name |-> TelegramName]]

\* mediatype.get and the code up to the next call
\* as ShouldPatch, but not asking for a configured bot token
ShouldPatch_NoToken(token, parameters) == parameters.some

\* the two if-lets guarding the parameter loop: TELEGRAM_BOT_TOKEN is set
\* and the media type has a parameter list
ShouldPatch(token, parameters) == token.some /\ parameters.some

MediatypeGet ==
    /\ pc = "mediatype_get"
    /\ \E resp \in ListResponses(SelectByName(zbxMediatypes, MtGetParams.filter.name)) :
         LET req == RpcRequest("mediatype.get", MtGetParams, auth)
             mtypes == Rpc(resp, DeVec(resp.body.result.v), <<>>)
             found == mtypes.ok /\ mtypes.val # <<>>
             first == IF found THEN mtypes.val[1] ELSE mt
             patch == ShouldPatch(bot_token, first.parameters)
             next == Try(mtypes, OkOrElse(mtypes.val # <<>>,
                        IF patch /\ NeedsUpdate(first.parameters.v, bot_token.v)
                        THEN "mediatype_update" ELSE "user_get"))
         IN /\ reqs' = Append(reqs, Sent(req, resp, mtypes))
            /\ mt' = first
            /\ mediatypeid' = IF found THEN first.mediatypeid ELSE mediatypeid
            /\ updated_params' = IF found /\ patch
                                 THEN UpdatedParams(first.parameters.v, bot_token.v)
                                 ELSE updated_params
            /\ pc' = next
            /\ history' = Returned(next, zbxMediatypes, zbxUsers, zbxActions)
    /\ UNCHANGED other
    /\ UNCHANGED <<remote, bot_token, auth, authWrites, u, userid, medias, run>>

\* mediatype.update; a request whose answer is lost may have been applied
MediatypeUpdate ==
    /\ pc = "mediatype_update"
    /\ \E resp \in WriteResponses, applied \in BOOLEAN :
         LET params == MtUpdateParams(mediatypeid, updated_params)
             req == RpcRequest("mediatype.update", params, auth)
             upd == Rpc(resp, DeValue(resp.body.result.v), JAbsent)
         IN /\ upd.ok => applied
            /\ applied => (upd.ok \/ resp.net)
            /\ reqs' = Append(reqs, Sent(req, resp, upd))
            /\ zbxMediatypes' = IF applied THEN SrvMediatypeUpdate(zbxMediatypes, params)
                                ELSE zbxMediatypes
            /\ pc' = Try(upd, "user_get")
            /\ history' = Returned(pc', zbxMediatypes', zbxUsers, zbxActions)
    /\ UNCHANGED other
    /\ UNCHANGED <<zbxUsers, zbxActions, locals, bot_token, auth, authWrites, run>>

UserGetParams ==
    [output |-> <<"userid", "alias", "name">>,
     filter |-> [alias |-> user_alias], selectMedias |-> "extend"]

\* user.get and the code up to the next call
UserGet ==
    /\ pc = "user_get"
    /\ \E resp \in ListResponses(SelectByAlias(zbxUsers, UserGetParams.filter.alias)) :
         LET req == RpcRequest("user.get", UserGetParams, auth)
             users == Rpc(resp, DeVec(resp.body.result.v), <<>>)
             found == users.ok /\ users.val # <<>>
             first == IF found THEN users.val[1] ELSE u
             uid == as_str(first.userid)
             good == found /\ uid.some
             parsed == ParseMedias(first)
             exists == MediaExists(parsed, mediatypeid, chat_id)
             next == Try(users, OkOrElse(users.val # <<>>, OkOrElse(uid.some,
                        IF exists THEN "action_get" ELSE "user_update")))
         IN /\ reqs' = Append(reqs, Sent(req, resp, users))
            /\ u' = first
            /\ userid' = IF good THEN uid.v ELSE userid
            /\ medias' = IF ~good THEN medias
                         ELSE IF exists THEN parsed
                         ELSE Append(parsed, NewMedia(mediatypeid, chat_id))
            /\ pc' = next
            /\ history' = Returned(next, zbxMediatypes, zbxUsers, zbxActions)
    /\ UNCHANGED other
    /\ UNCHANGED <<remote, bot_token, auth, authWrites, mt, mediatypeid,
                   updated_params, run>>

\* user.update
UserUpdate ==
    /\ pc = "user_update"
    /\ \E resp \in WriteResponses, applied \in BOOLEAN :
         LET params == UserUpdateParams(userid, medias)
             req == RpcRequest("user.update", params, auth)
             upd == Rpc(resp, DeValue(resp.body.result.v), JAbsent)
         IN /\ upd.ok => applied
            /\ applied => (upd.ok \/ resp.net)
            /\ reqs' = Append(reqs, Sent(req, resp, upd))
            /\ zbxUsers' = IF applied THEN SrvUserUpdate(zbxUsers, params) ELSE zbxUsers
            /\ pc' = Try(upd, "action_get")
            /\ history' = Returned(pc', zbxMediatypes, zbxUsers', zbxActions)
    /\ UNCHANGED other
    /\ UNCHANGED <<zbxMediatypes, zbxActions, locals, bot_token, auth, authWrites, run>>

ActionGetParams ==
    [output |-> <<"actionid", "name">>, filter |-> [name |-> action_name]]

\* action.get and the code up to the next call or to Ok(())
ActionGet ==
    /\ pc = "action_get"
    /\ \E resp \in ListResponses(SelectByName(zbxActions, ActionGetParams.filter.name)) :
         LET req == RpcRequest("action.get", ActionGetParams, auth)
             actions == Rpc(resp, DeVec(resp.body.result.v), <<>>)
         IN /\ reqs' = Append(reqs, Sent(req, resp, actions))
            /\ pc' = Try(actions, IF ActionsEmpty(actions.val) THEN "action_create"
                                   ELSE "done")
            /\ history' = Returned(pc', zbxMediatypes, zbxUsers, zbxActions)
    /\ UNCHANGED other
    /\ UNCHANGED <<remote, locals, bot_token, auth, authWrites, run>>

\* action.create, then Ok(())
ActionCreateRpc ==
    /\ pc = "action_create"
    /\ \E resp \in WriteResponses, applied \in BOOLEAN :
         LET payload == ActionCreate(action_name, mediatypeid, userid)
             req == RpcRequest("action.create", payload, auth)
             created == Rpc(resp, DeValue(resp.body.result.v), JAbsent)
         IN /\ created.ok => applied
            /\ applied => (created.ok \/ resp.net)
            /\ reqs' = Append(reqs, Sent(req, resp, created))
            /\ zbxActions' = IF applied THEN SrvActionCreate(zbxActions, payload)
                             ELSE zbxActions
            /\ pc' = Try(created, "done")
            /\ history' = Returned(pc', zbxMediatypes, zbxUsers, zbxActions')
    /\ UNCHANGED other
    /\ UNCHANGED <<zbxMediatypes, zbxUsers, locals, bot_token, auth, authWrites, run>>

\* zbx-setup is started again with the same environment: a new ZbxClient
\* and fresh locals
Restart ==
    /\ pc \in {"done", "failed"}
    /\ run < MaxRuns
    /\ run' = run + 1
    /\ pc' = "login"
    /\ auth' = NoneStr
    /\ authWrites' = 0
    /\ mt' = NoMt
    /\ mediatypeid' = ""
    /\ updated_params' = <<>>
    /\ u' = NoUser
    /\ userid' = ""
    /\ medias' = <<>>
    /\ reqs' = <<>>
    /\ UNCHANGED other
    /\ UNCHANGED <<remote, bot_token, history>>

Next ==
    \/ Login
    \/ MediatypeGet
    \/ MediatypeUpdate
    \/ UserGet
    \/ UserUpdate
    \/ ActionGet
    \/ ActionCreateRpc
    \/ Restart

Spec == Init /\ [][Next]_vars

TypeOK ==
    /\ pc \in {"login", "mediatype_get", "mediatype_update", "user_get",
               "user_update", "action_get", "action_create", "done", "failed"}
    /\ run \in 1..MaxRuns
    /\ Len(history) \in {run - 1, run}

(* ====================================================================== *)
(*                      the bot: main after the mode check                 *)
(* ====================================================================== *)
\* zbx-setup is not run in this mode
IdleZbx ==
    /\ zbxMediatypes = <<>>
    /\ zbxUsers = <<>>
    /\ zbxActions = <<>>
    /\ bot_token = Some("NEW")
    /\ auth = NoneStr
    /\ authWrites = 0
    /\ pc = "bot"
    /\ mt = NoMt
    /\ mediatypeid = ""
    /\ updated_params = <<>>
    /\ u = NoUser
    /\ userid = ""
    /\ medias = <<>>
    /\ reqs = <<>>
    /\ run = 1
    /\ history = <<>>
    /\ zbx0 = [mediatypes |-> <<>>, users |-> <<>>, actions |-> <<>>]

\* main is about to call read_allowed_users
AtRead ==
    /\ mainpc = "read"
    /\ row = 0
    /\ set = {}
    /\ warned = {}
    /\ ret = NoRet
    /\ allowed_users = {}
    /\ tasks = [t \in 1..MaxTasks |-> IdleTask]

\* fs::read_to_string(path) and the match on its result
ReadToString ==
    /\ mainpc = "read"
    /\ mainpc' = IF file.state = "ok" THEN "lines" ELSE "returned"
    /\ ret' = IF file.state = "missing" THEN [ok |-> TRUE, val |-> {}] ELSE NoRet
    /\ UNCHANGED <<file, row, set, warned, allowed_users, tasks>>
    /\ UNCHANGED zbxvars

\* one turn of the loop over content.lines()
ReadLine ==
    /\ mainpc = "lines"
    /\ row < Len(file.lines)
    /\ LET line == trim(file.lines[row + 1])
           skip == line = <<>> \/ starts_with(line, "#")
           parsed == ParseI64(line)
       IN /\ row' = row + 1
          /\ set' = IF ~skip /\ parsed.ok THEN set \cup {parsed.val} ELSE set
          /\ warned' = IF ~skip /\ ~parsed.ok THEN warned \cup {row + 1} ELSE warned
    /\ UNCHANGED <<file, mainpc, ret, allowed_users, tasks>>
    /\ UNCHANGED zbxvars

\* Ok(set)
ReturnSet ==
    /\ mainpc = "lines"
    /\ row = Len(file.lines)
    /\ ret' = [ok |-> TRUE, val |-> set]
    /\ mainpc' = "returned"
    /\ UNCHANGED <<file, row, set, warned, allowed_users, tasks>>
    /\ UNCHANGED zbxvars

InitAllow == IdleZbx /\ AtRead /\ file \in Files(MaxLines)

NextAllow ==
    \/ ReadToString
    \/ ReadLine
    \/ ReturnSet

SpecAllow == InitAllow /\ [][NextAllow]_vars

\* as is_authorized, but letting everyone in
is_authorized_Any(state, user_id) == TRUE

\* guard.contains(&user_id) under the read lock
is_authorized(state, user_id) == user_id \in state

\* read_allowed_users(..)?, AppState, bot.get_me().await?, dispatch()
Startup ==
    /\ mainpc = "returned"
    /\ \E me \in BOOLEAN :
         /\ mainpc' = IF ret.ok /\ me THEN "serving" ELSE "exit"
         /\ allowed_users' = IF ret.ok THEN ret.val ELSE allowed_users
    /\ UNCHANGED <<file, row, set, warned, ret, tasks>>
    /\ UNCHANGED zbxvars

\* the dispatcher takes a message: a command of Command goes to
\* handle_command, everything else to handle_message
Receive(t) ==
    /\ mainpc = "serving"
    /\ tasks[t].pc = "idle"
    /\ \E cmd \in {"help", "start", "id", "text"}, from \in Senders :
         tasks' = [tasks EXCEPT ![t] =
                      [IdleTask EXCEPT !.pc = IF cmd = "text" THEN "handle_message"
                                              ELSE "handle_command",
                                       !.cmd = cmd, !.from = from]]
    /\ UNCHANGED <<file, mainpc, row, set, warned, ret, allowed_users>>
    /\ UNCHANGED zbxvars

\* msg.from().map(|u| u.id.0 as i64)
UserIdOf(from) == IF from.some THEN Some(AsI64(from.v)) ELSE NoUid

\* handle_command up to the end of its first await
HandleCommand(t) ==
    /\ tasks[t].pc = "handle_command"
    /\ LET task == tasks[t]
           user_id == UserIdOf(task.from)
       IN \E delivered \in BOOLEAN :
            tasks' = [tasks EXCEPT ![t] =
               IF task.cmd = "help"
               THEN [task EXCEPT !.user_id = user_id,
                        !.replies = Sent_message(task, Descriptions, NoUid.v, delivered),
                        !.pc = IF delivered THEN "done" ELSE "error"]
               ELSE IF ~user_id.some
               THEN [task EXCEPT !.user_id = user_id, !.pc = "done"]
               ELSE IF task.cmd = "start"
               THEN [task EXCEPT !.user_id = user_id,
                        !.authorized = is_authorized(allowed_users, user_id.v),
                        !.pc = "start_reply"]
               ELSE [task EXCEPT !.user_id = user_id,
                        !.replies = Sent_message(task, YourId, user_id.v, delivered),
                        !.pc = IF delivered THEN "done" ELSE "error"]]
    /\ UNCHANGED <<file, mainpc, row, set, warned, ret, allowed_users>>
    /\ UNCHANGED zbxvars

\* Command::Start after is_authorized: the reply
StartReply(t) ==
    /\ tasks[t].pc = "start_reply"
    /\ \E delivered \in BOOLEAN :
         tasks' = [tasks EXCEPT ![t] =
            [tasks[t] EXCEPT
                !.replies = Sent_message(tasks[t],
                               IF ~tasks[t].authorized THEN AccessDenied
                               ELSE LoginSuccessful, NoUid.v, delivered),
                !.pc = IF delivered THEN "done" ELSE "error"]]
    /\ UNCHANGED <<file, mainpc, row, set, warned, ret, allowed_users>>
    /\ UNCHANGED zbxvars

\* handle_message up to the end of is_authorized
HandleMessage(t) ==
    /\ tasks[t].pc = "handle_message"
    /\ LET task == tasks[t]
           uid == UserIdOf(task.from)
       IN tasks' = [tasks EXCEPT ![t] =
             IF ~uid.some THEN [task EXCEPT !.pc = "done"]
             ELSE [task EXCEPT !.user_id = uid,
                      !.authorized = is_authorized(allowed_users, uid.v),
                      !.pc = "message_reply"]]
    /\ UNCHANGED <<file, mainpc, row, set, warned, ret, allowed_users>>
    /\ UNCHANGED zbxvars

\* handle_message after is_authorized: "Access denied" with .ok(), or the
\* usage hint with ?
MessageReply(t) ==
    /\ tasks[t].pc = "message_reply"
    /\ \E delivered \in BOOLEAN :
         tasks' = [tasks EXCEPT ![t] =
            IF ~tasks[t].authorized
            THEN [tasks[t] EXCEPT
                    !.replies = Sent_message(tasks[t], AccessDenied, NoUid.v, delivered),
                    !.pc = "done"]
            ELSE [tasks[t] EXCEPT
                    !.replies = Sent_message(tasks[t], UsageHint, NoUid.v, delivered),
                    !.pc = IF delivered THEN "done" ELSE "error"]]
    /\ UNCHANGED <<file, mainpc, row, set, warned, ret, allowed_users>>
    /\ UNCHANGED zbxvars

InitBot == IdleZbx /\ AtRead /\ file \in BotFiles

NextBot ==
    \/ ReadToString
    \/ ReadLine
    \/ ReturnSet
    \/ Startup
    \/ \E t \in 1..MaxTasks : Receive(t)
    \/ \E t \in 1..MaxTasks : HandleCommand(t)
    \/ \E t \in 1..MaxTasks : StartReply(t)
    \/ \E t \in 1..MaxTasks : HandleMessage(t)
    \/ \E t \in 1..MaxTasks : MessageReply(t)

SpecBot == InitBot /\ [][NextBot]_vars

(* ====================================================================== *)
(*                               properties                               *)
(* ====================================================================== *)
Method(i) == reqs[i].req.method
IsLoginNew(e) == e.req.method = "user.login" /\ "username" \in DOMAIN e.req.params
IsLoginOld(e) == e.req.method = "user.login" /\ "user" \in DOMAIN e.req.params
Sends(method) == {i \in 1..Len(reqs) : Method(i) = method}

\* the request failed with an RPC error whose message speaks of an invalid
\* or unexpected parameter
ParamRpcError(e) ==
    /\ ~e.ok
    /\ e.kind = "rpc"
    /\ e.error.some
    /\ \/ contains(e.error.v.message, PInvalidParams)
       \/ contains(e.error.v.message, PUnexpectedUsername)

\* a medias element as returned by user.get is the pair (mtid, chat)
RawMatch(m, mtid, chat) == m.mediatypeid = JStr(mtid) /\ m.sendto = JStr(chat)

RawMedias(uj) == IF uj.medias.t = "array" THEN uj.medias.items ELSE <<>>

MatchCount(us, mtid, chat) ==
    Cardinality(UNION { { <<i, k>> : k \in {n \in 1..Len(RawMedias(us[i])) :
                                              RawMatch(RawMedias(us[i])[n], mtid, chat)} } :
                        i \in {j \in 1..Len(us) : us[j].alias = user_alias} })

RuleCount(acts, name) == Cardinality({i \in 1..Len(acts) : acts[i].name = name})

ParamLens(mts) ==
    [i \in 1..Len(mts) |-> IF mts[i].parameters.some THEN Len(mts[i].parameters.v) ELSE 0]

\* C1: when two runs in succession both succeed, the remote state after the
\* second run is the remote state after the first: the second run adds no
\* (media type, chat) entry, no action of the configured name, and leaves the
\* length of every parameter list as it was.
C1_Idempotent ==
    \A i \in 2..Len(history) :
        (history[i-1].ok /\ history[i].ok) =>
            /\ history[i].mediatypes = history[i-1].mediatypes
            /\ history[i].users = history[i-1].users
            /\ history[i].actions = history[i-1].actions
            /\ MatchCount(history[i].users, TelegramId, chat_id)
                 = MatchCount(history[i-1].users, TelegramId, chat_id)
            /\ RuleCount(history[i].actions, action_name)
                 = RuleCount(history[i-1].actions, action_name)
            /\ ParamLens(history[i].mediatypes) = ParamLens(history[i-1].mediatypes)

\* a second successful run after a first one that wrote the token, attached
\* the media and created the action
C1_Witness ==
    /\ Len(history) = 2 /\ history[1].ok /\ history[2].ok
    /\ pc = "done" /\ Len(reqs) = 4
    /\ MatchCount(history[2].users, TelegramId, chat_id) = 1
    /\ \E i \in 1..Len(history[1].users) :
          /\ history[1].users[i].medias.t = "array"
          /\ \E k \in 1..Len(history[1].users[i].medias.items) :
                history[1].users[i].medias.items[k]
                    = SerializeUserMedia(NewMedia(TelegramId, chat_id))
    /\ Len(history[1].actions) = 2
    /\ history[1].actions[2] = ActionCreate(action_name, TelegramId, AdminId)
    /\ \E i \in 1..Len(history[1].mediatypes) :
          /\ history[1].mediatypes[i].parameters.some
          /\ history[1].mediatypes[i].parameters.v
                = <<Param(Some("Token"), Some("NEW")), Param(Some("Foo"), Some("Bar"))>>


\* the medias array that user.get returned to this run, and whether it did
UserGetAt == CHOOSE i \in Sends("user.get") : TRUE
UserFetched ==
    /\ Sends("user.get") # {}
    /\ reqs[UserGetAt].ok
    /\ reqs[UserGetAt].result.v.items # <<>>
    /\ reqs[UserGetAt].result.v.items[1].userid.t = "string"
FetchedUser == reqs[UserGetAt].result.v.items[1]
FetchedMedias == RawMedias(FetchedUser)
FetchedHasPair ==
    \E k \in 1..Len(FetchedMedias) : RawMatch(FetchedMedias[k], mediatypeid, chat_id)

\* C2: when no medias element returned by user.get is the pair (media type
\* id, chat id), user.update is sent with the user id and with every returned
\* element, unchanged and in order, followed by exactly one new element
\* (media type id, chat id, active "0", severity "63", period always).
C2_AppendPreservesAll ==
    (UserFetched /\ ~FetchedHasPair) =>
        /\ Len(reqs) = UserGetAt => pc = "user_update"
        /\ Len(reqs) > UserGetAt =>
              LET p == reqs[UserGetAt + 1].req.params IN
              /\ Method(UserGetAt + 1) = "user.update"
              /\ p.userid = FetchedUser.userid.v
              /\ Len(p.medias) = Len(FetchedMedias) + 1
              /\ \A k \in 1..Len(FetchedMedias) :
                    k <= Len(p.medias) /\ SerializeUserMedia(p.medias[k]) = FetchedMedias[k]
              /\ p.medias[Len(p.medias)] = NewMedia(mediatypeid, chat_id)

\* C3: when the new-schema login fails with anything but an RPC error whose
\* message speaks of an invalid or unexpected parameter, no old-schema login
\* is sent, auth stays None and the run has failed.
C3_NoFallbackOnOtherFailure ==
    (Len(reqs) >= 1 /\ IsLoginNew(reqs[1]) /\ ~reqs[1].ok /\ ~ParamRpcError(reqs[1])) =>
        /\ Len(reqs) = 1
        /\ ~auth.some
        /\ pc = "failed"

\* C4: when the new-schema login fails with an RPC error whose message speaks
\* of an invalid or unexpected parameter, exactly one more login is sent, with
\* the old schema and the same user and password; its token becomes auth if
\* it succeeds, and if it fails the run has failed after these two requests.
C4_FallbackOnce ==
    (Len(reqs) >= 1 /\ IsLoginNew(reqs[1]) /\ ParamRpcError(reqs[1])) =>
        /\ Len(reqs) >= 2
        /\ IsLoginOld(reqs[2])
        /\ reqs[2].req.params.user = reqs[1].req.params.username
        /\ reqs[2].req.params.password = reqs[1].req.params.password
        /\ reqs[2].req.params = ParamsOld(user, pass)
        /\ Cardinality(Sends("user.login")) = 2
        /\ reqs[2].ok => /\ auth = Some(reqs[2].result.v.v)
                         /\ Len(reqs) = 2 => pc = "mediatype_get"
        /\ ~reqs[2].ok => (Len(reqs) = 2 /\ pc = "failed" /\ ~auth.some)

\* the fallback was taken after Zabbix rejected "username", and logged in
C4_Witness ==
    /\ Len(reqs) >= 3
    /\ IsLoginNew(reqs[1]) /\ ParamRpcError(reqs[1])
    /\ reqs[1].error = ErrUnexpectedUsername
    /\ IsLoginOld(reqs[2]) /\ reqs[2].ok
    /\ auth.some


\* C5: auth is None until a login succeeds, so every login request goes out
\* without auth; auth is assigned once, by the successful login, and keeps
\* that value for the rest of the run; every later request carries it.
C5_TokenState ==
    LET okLogins == {i \in Sends("user.login") : reqs[i].ok} IN
    /\ auth.some <=> okLogins # {}
    /\ authWrites = Cardinality(okLogins)
    /\ authWrites <= 1
    /\ \A i \in Sends("user.login") : ~reqs[i].req.auth.some
    /\ \A i \in 1..Len(reqs) :
          Method(i) # "user.login" =>
              /\ auth.some
              /\ reqs[i].req.auth = auth
              /\ \E j \in okLogins : j < i /\ auth = Some(reqs[j].result.v.v)

C5_SessionToken ==
    /\ []C5_TokenState
    /\ [][(auth.some /\ run' = run) => (auth' = auth /\ authWrites' = authWrites)]_vars

\* a finished run that sent all six kinds of later requests with the token
C5_Witness ==
    /\ pc = "done"
    /\ auth.some
    /\ \A m \in {"mediatype.get", "mediatype.update", "user.get", "user.update",
                 "action.get", "action.create"} :
          \E i \in Sends(m) : reqs[i].req.auth = auth

\* position of a request in the order of zbx_setup
Rank(e) ==
    CASE IsLoginNew(e) -> 1
      [] IsLoginOld(e) -> 2
      [] e.req.method = "mediatype.get" -> 3
      [] e.req.method = "mediatype.update" -> 4
      [] e.req.method = "user.get" -> 5
      [] e.req.method = "user.update" -> 6
      [] e.req.method = "action.get" -> 7
      [] e.req.method = "action.create" -> 8
      [] OTHER -> 0

\* the first login request, answered by the old-schema one, is the one
\* failure a run survives
IsFallenBack(i) == i = 1 /\ Len(reqs) >= 2 /\ IsLoginOld(reqs[2])

C6_Order ==
    /\ \A i \in 1..Len(reqs) : Rank(reqs[i]) # 0
    /\ \A i, j \in 1..Len(reqs) : i < j => Rank(reqs[i]) < Rank(reqs[j])
    /\ Len(reqs) >= 1 => Rank(reqs[1]) = 1
    /\ \A i \in 1..Len(reqs) :
          /\ Rank(reqs[i]) > 3 => Sends("mediatype.get") # {}
          /\ Rank(reqs[i]) > 5 => Sends("user.get") # {}
          /\ Rank(reqs[i]) > 7 => Sends("action.get") # {}
    /\ \A i \in 1..Len(reqs) : i < Len(reqs) => (reqs[i].ok \/ IsFallenBack(i))
    /\ (\E i \in 1..Len(reqs) : ~reqs[i].ok /\ ~IsFallenBack(i)) => pc = "failed"
    /\ pc = "failed" => (Len(history) = run /\ ~history[run].ok)
    /\ pc = "done" =>
          /\ Len(history) = run /\ history[run].ok
          /\ \A i \in 1..Len(reqs) : reqs[i].ok \/ IsFallenBack(i)
          /\ \A m \in {"user.login", "mediatype.get", "user.get", "action.get"} :
                \E i \in Sends(m) : reqs[i].ok
    /\ pc \notin {"done", "failed"} => Len(history) = run - 1

\* C6: the requests of a run go out in the order login, mediatype.get,
\* [mediatype.update], user.get, [user.update], action.get, [action.create],
\* each after the previous one succeeded; a failed request or stage ends the
\* run as failed with no further request, and the run succeeds only after
\* all four stages did.
C6_OrderAndAbort ==
    /\ []C6_Order
    /\ [][(pc \in {"done", "failed"} /\ run' = run) => reqs' = reqs]_vars
    /\ [][(pc \in {"done", "failed"} /\ run' # run) => (reqs' = <<>> /\ pc' = "login")]_vars

\* a run aborted by a failed user.update after two successful stages' requests
C6_Witness ==
    /\ pc = "failed"
    /\ Len(reqs) = 5
    /\ Method(4) = "user.get" /\ reqs[4].ok
    /\ Method(5) = "user.update" /\ ~reqs[5].ok

\* the media type that mediatype.get returned to this run, and whether it did
MtGetAt == CHOOSE i \in Sends("mediatype.get") : TRUE
MtFetched ==
    /\ Sends("mediatype.get") # {}
    /\ reqs[MtGetAt].ok
    /\ reqs[MtGetAt].result.v.items # <<>>
FetchedMt == reqs[MtGetAt].result.v.items[1]

IsTokenParam(p) == p.name.some /\ to_lowercase(p.name.v) \in {"token", "bottoken"}

\* C7: a mediatype.update request carries the media type id and a parameter
\* list as long as, and in the order of, the list mediatype.get returned;
\* every parameter not named token/bottoken (in any case) is as returned, and
\* every token parameter differs at most in its value, which is the bot token.
C7_UpdatePayload ==
    \A i \in Sends("mediatype.update") :
        LET p == reqs[i].req.params
            orig == FetchedMt.parameters.v
        IN /\ MtFetched /\ bot_token.some /\ FetchedMt.parameters.some
           /\ p.mediatypeid = FetchedMt.mediatypeid
           /\ Len(p.parameters) = Len(orig)
           /\ \A k \in 1..Len(orig) :
                 /\ k <= Len(p.parameters)
                 /\ IF IsTokenParam(orig[k])
                    THEN p.parameters[k] = [orig[k] EXCEPT !.value = Some(bot_token.v)]
                    ELSE p.parameters[k] = orig[k]

\* Token=OLD, Foo=Bar was read and Token=NEW, Foo=Bar was sent
C7_Witness ==
    /\ MtFetched
    /\ FetchedMt.parameters.v = <<Param(Some("Token"), Some("OLD")), Param(Some("Foo"), Some("Bar"))>>
    /\ \E i \in Sends("mediatype.update") :
          reqs[i].req.params.parameters
              = <<Param(Some("Token"), Some("NEW")), Param(Some("Foo"), Some("Bar"))>>

\* a bot token is configured, the media type has parameters, and a token
\* parameter has no value or another value
WriteNeeded ==
    /\ bot_token.some
    /\ FetchedMt.parameters.some
    /\ \E k \in 1..Len(FetchedMt.parameters.v) :
          /\ IsTokenParam(FetchedMt.parameters.v[k])
          /\ \/ ~FetchedMt.parameters.v[k].value.some
             \/ FetchedMt.parameters.v[k].value.v # bot_token.v

\* C8: mediatype.update is sent if and only if a bot token is configured, the
\* media type has a parameter list and some token parameter has no value or a
\* value other than the bot token; otherwise nothing is written to the media
\* type and the run goes on to user.get with the media type id.
C8_WriteCondition ==
    /\ Sends("mediatype.update") # {} => MtFetched
    /\ MtFetched =>
          /\ mediatypeid = FetchedMt.mediatypeid
          /\ WriteNeeded =>
                IF Len(reqs) = MtGetAt THEN pc = "mediatype_update"
                ELSE Method(MtGetAt + 1) = "mediatype.update"
          /\ ~WriteNeeded =>
                /\ Sends("mediatype.update") = {}
                /\ IF Len(reqs) = MtGetAt THEN pc = "user_get"
                   ELSE Method(MtGetAt + 1) = "user.get"

\* a token parameter already holds the bot token, nothing was written and
\* user.get was sent
C8_Witness ==
    /\ MtFetched
    /\ bot_token.some
    /\ FetchedMt.parameters.some
    /\ \E k \in 1..Len(FetchedMt.parameters.v) :
          /\ IsTokenParam(FetchedMt.parameters.v[k])
          /\ FetchedMt.parameters.v[k].value = bot_token
    /\ ~WriteNeeded
    /\ Sends("user.get") # {}
    /\ Sends("mediatype.update") = {}

\* C9: when a medias element returned by user.get is the pair (media type
\* id, chat id), no user.update is sent in that run and the user's medias
\* stay as they were.
C9_NoWriteWhenPresent ==
    (UserFetched /\ FetchedHasPair) =>
        /\ Sends("user.update") = {}
        /\ pc # "user_update"
        /\ SelectByAlias(zbxUsers, user_alias)[1] = FetchedUser

\* the actions that action.get returned to this run
ActionGetAt == CHOOSE i \in Sends("action.get") : TRUE
ActionsFetched == Sends("action.get") # {} /\ reqs[ActionGetAt].ok
FetchedActions == reqs[ActionGetAt].result.v.items

\* C10: when action.get returns no action of the configured name, exactly one
\* action.create is sent, with that name, eventsource 0, status 0 and a single
\* operation whose opmessage names the media type id found and whose
\* opmessage_usr is the one user id found; when it returns an action, neither
\* action.create nor action.update is sent.
C10_CreateIfAbsent ==
    /\ Cardinality(Sends("action.create")) <= 1
    /\ Sends("action.update") = {}
    /\ Sends("action.create") # {} => (ActionsFetched /\ FetchedActions = <<>>)
    /\ ActionsFetched =>
          IF FetchedActions = <<>>
          THEN IF Len(reqs) = ActionGetAt THEN pc = "action_create"
               ELSE LET p == reqs[ActionGetAt + 1].req.params IN
                    /\ Len(reqs) = ActionGetAt + 1
                    /\ Method(ActionGetAt + 1) = "action.create"
                    /\ p.name = action_name
                    /\ p.eventsource = 0
                    /\ p.status = 0
                    /\ Len(p.operations) = 1
                    /\ MtFetched /\ UserFetched
                    /\ p.operations[1].opmessage.mediatypeid = FetchedMt.mediatypeid
                    /\ p.operations[1].opmessage_usr = << [userid |-> FetchedUser.userid.v] >>
          ELSE /\ Len(reqs) = ActionGetAt
               /\ pc = "done"
               /\ Sends("action.create") = {}

\* no action was found and action.create went out and succeeded
C10_Witness ==
    /\ ActionsFetched /\ FetchedActions = <<>>
    /\ pc = "done"
    /\ \E i \in Sends("action.create") :
          /\ reqs[i].ok
          /\ reqs[i].req.params.operations[1].opmessage.mediatypeid = TelegramId
          /\ reqs[i].req.params.operations[1].opmessage_usr = << [userid |-> AdminId] >>
    /\ zbxActions[Len(zbxActions)].name = action_name


\* C11: when mediatype.get returns no media type, or user.get returns no
\* user, the run has failed and that request is the last one of the run:
\* no user.get, user.update, action.get or action.create follows an empty
\* mediatype.get, and no user.update, action.get or action.create follows an
\* empty user.get.
C11_NotFoundIsFatal ==
    /\ \A i \in Sends("mediatype.get") :
          (reqs[i].ok /\ reqs[i].result.v.items = <<>>) =>
              /\ pc = "failed"
              /\ Len(reqs) = i
              /\ Len(history) = run /\ ~history[run].ok
              /\ \A m \in {"user.get", "user.update", "action.get", "action.create"} :
                    Sends(m) = {}
    /\ \A i \in Sends("user.get") :
          (reqs[i].ok /\ reqs[i].result.v.items = <<>>) =>
              /\ pc = "failed"
              /\ Len(reqs) = i
              /\ Len(history) = run /\ ~history[run].ok
              /\ \A m \in {"user.update", "action.get", "action.create"} :
                    Sends(m) = {}

\* user.get was answered with an empty list, after a media type was found
C11_Witness ==
    /\ MtFetched
    /\ \E i \in Sends("user.get") : reqs[i].ok /\ reqs[i].result.v.items = <<>>
    /\ pc = "failed"


\* rpc's error is a transport error: the HTTP exchange or the envelope failed
IsTransportError(e) == ~e.ok /\ e.kind \in {"http", "parse"}

RECURSIVE IsSuffix(_, _)
IsSuffix(t, text) ==
    IF Len(t) > Len(text) THEN FALSE
    ELSE IF Len(t) = Len(text) THEN t = text
    ELSE IsSuffix(t, Tail(text))

\* C12: for every response received, rpc returns a transport error when the
\* HTTP status is not a success (its text carries the status and the body) or
\* the body is not an envelope, an RPC error (not a transport error) when the
\* envelope has an error, a protocol error when the envelope has neither
\* result nor error; it returns a result only for a success status and an
\* envelope with a result and no error.
C12_ErrorClasses ==
    \A i \in 1..Len(reqs) :
        LET e == reqs[i]
            r == reqs[i].resp
            success == r.status \in 200..299
        IN ~r.net =>
            /\ ~success =>
                  /\ IsTransportError(e)
                  /\ contains(e.msg, StatusText(r.status))
                  /\ IsSuffix(r.body.text, e.msg)
            /\ (success /\ ~r.body.parses) => IsTransportError(e)
            /\ (success /\ r.body.parses /\ r.body.error.some) =>
                  (~e.ok /\ e.kind = "rpc" /\ ~IsTransportError(e))
            /\ (success /\ r.body.parses /\ ~r.body.error.some /\ ~r.body.result.some) =>
                  (~e.ok /\ e.kind = "protocol")
            /\ e.ok => (success /\ r.body.parses /\ r.body.result.some /\ ~r.body.error.some)

\* a login answered by an envelope holding both a result and an error, which
\* rpc returned as an RPC error
C12_Witness ==
    /\ Len(reqs) = 1
    /\ reqs[1].resp.status = 200
    /\ reqs[1].resp.body.parses
    /\ reqs[1].resp.body.result.some
    /\ reqs[1].resp.body.error.some
    /\ reqs[1].kind = "rpc"
    /\ pc = "failed"


\* C13 as stated: without a bot token no request about the media type is
\* sent in the run, neither mediatype.get nor mediatype.update.
C13_NoChannelRequest ==
    ~bot_token.some =>
        (Sends("mediatype.get") = {} /\ Sends("mediatype.update") = {})

\* C13: without a bot token the run never sends mediatype.update and the
\* media types are never written; it still sends mediatype.get once it is
\* logged in, and goes on to the user step only with the media type found.
C13_NoUpdateWithoutSecret ==
    ~bot_token.some =>
        /\ Sends("mediatype.update") = {}
        /\ pc # "mediatype_update"
        /\ \A k \in 1..Len(history) : history[k].mediatypes = zbxMediatypes
        /\ (Sends("user.get") # {} \/ pc = "user_get") => MtFetched

\* no bot token, the media type fetched with a token parameter, and the run
\* past the media type step
C13_Witness ==
    /\ ~bot_token.some
    /\ MtFetched
    /\ FetchedMt.parameters.some
    /\ \E k \in 1..Len(FetchedMt.parameters.v) : IsTokenParam(FetchedMt.parameters.v[k])
    /\ pc = "user_get"


\* the remote state as a record
RemoteOf(h) == [mediatypes |-> h.mediatypes, users |-> h.users, actions |-> h.actions]

\* the remote state run j started from
StartOf(j) == IF j = 1 THEN zbx0 ELSE RemoteOf(history[j - 1])

\* what one uninterrupted successful run makes of the remote state s: the
\* Telegram media type's token parameters hold the bot token, the target user
\* has a media for the chat, a rule of the configured name exists
Reconciled(s, token) ==
    LET tg == SelectByName(s.mediatypes, TelegramName)[1]
        ad == SelectByAlias(s.users, user_alias)[1]
        uid == as_str(ad.userid).v
        kept == ParseMedias(ad)
    IN [mediatypes |->
            IF token.some /\ tg.parameters.some /\ NeedsUpdate(tg.parameters.v, token.v)
            THEN SrvMediatypeUpdate(s.mediatypes,
                     MtUpdateParams(tg.mediatypeid, UpdatedParams(tg.parameters.v, token.v)))
            ELSE s.mediatypes,
        users |->
            IF \E i \in 1..Len(kept) :
                   kept[i].mediatypeid = tg.mediatypeid /\ kept[i].sendto = chat_id
            THEN s.users
            ELSE SrvUserUpdate(s.users, UserUpdateParams(uid,
                     Append(kept, NewMedia(tg.mediatypeid, chat_id)))),
        actions |->
            IF \E i \in 1..Len(s.actions) : s.actions[i].name = action_name
            THEN s.actions
            ELSE SrvActionCreate(s.actions, ActionCreate(action_name, tg.mediatypeid, uid))]

\* C15: a finished run leaves the remote state as its requests made it (a
\* failure undoes nothing, a restart changes nothing), and a successful run
\* that follows any number of failed runs ends in the remote state one
\* uninterrupted successful run from the state before those failed runs
\* produces.
C15_Converges ==
    /\ Len(history) = run => RemoteOf(history[run]) =
           [mediatypes |-> zbxMediatypes, users |-> zbxUsers, actions |-> zbxActions]
    /\ reqs = <<>> => StartOf(run) =
           [mediatypes |-> zbxMediatypes, users |-> zbxUsers, actions |-> zbxActions]
    /\ \A k \in 1..Len(history) : \A j \in 1..k :
          (history[k].ok /\ \A m \in j..(k - 1) : ~history[m].ok) =>
              RemoteOf(history[k]) = Reconciled(StartOf(j), bot_token)

\* a run that failed after a write of it was applied, then a run that
\* succeeded
C15_Witness ==
    /\ Len(history) = 2
    /\ ~history[1].ok
    /\ RemoteOf(history[1]) # zbx0
    /\ history[2].ok
    /\ RemoteOf(history[2]) # RemoteOf(history[1])


\* a request step of zbx_setup
Request ==
    \/ Login
    \/ MediatypeGet
    \/ MediatypeUpdate
    \/ UserGet
    \/ UserUpdate
    \/ ActionGet
    \/ ActionCreateRpc

Finished == pc \in {"done", "failed"}

\* the requests of the run so far: at most 8, at most two logins (the second
\* being the old-schema fallback of the first), every other method at most
\* once; the run has one outcome once finished and none before; an unfinished
\* run can always take its next request
C16_Counts ==
    /\ Len(reqs) <= 8
    /\ Cardinality(Sends("user.login")) <= 2
    /\ Cardinality(Sends("user.login")) = 2 =>
          (IsLoginNew(reqs[1]) /\ ~reqs[1].ok /\ IsLoginOld(reqs[2]))
    /\ \A m \in {"mediatype.get", "mediatype.update", "user.get", "user.update",
                 "action.get", "action.create"} : Cardinality(Sends(m)) <= 1
    /\ \A i \in 1..Len(reqs) : \A k \in 1..Len(reqs) :
          i < k => Rank(reqs[i]) < Rank(reqs[k])
    /\ Len(history) = (IF Finished THEN run ELSE run - 1)
    /\ Finished => (history[run].ok <=> pc = "done")
    /\ ~Finished => ENABLED Request

\* C16: every run sends at most 8 requests (two logins at most, each other
\* request at most once, none repeated); while the run is unfinished a next
\* request can be sent and every step sends at least one more request, so
\* that a run whose requests all return finishes; it finishes in exactly one
\* of done (success) and failed, and a finished run sends nothing more.
C16_BoundedTermination ==
    /\ []C16_Counts
    /\ [][ /\ ~Finished => (run' = run /\ Len(reqs') > Len(reqs))
           /\ Finished => (run' = run + 1 /\ reqs' = <<>>) ]_vars

\* a successful run of 8 requests
C16_Witness == Len(reqs) = 8 /\ pc = "done"


\* a line without the whitespace around it
Blank == {" ", "\t"}
Inked(l) == {i \in 1..Len(l) : l[i] \notin Blank}
TrimmedOf(l) ==
    IF Inked(l) = {} THEN <<>>
    ELSE SubSeq(l, CHOOSE i \in Inked(l) : \A k \in Inked(l) : i <= k,
                   CHOOSE i \in Inked(l) : \A k \in Inked(l) : i >= k)

\* t is the text of a 64-bit signed integer: an optional sign, one or more
\* digits, a value in -2^63 .. 2^63 - 1
Signed(t) == t # <<>> /\ t[1] \in {"+", "-"}
DigitsOf(t) == IF Signed(t) THEN Tail(t) ELSE t
IsI64Text(t) ==
    /\ DigitsOf(t) # <<>>
    /\ \A i \in 1..Len(DigitsOf(t)) : DigitsOf(t)[i] \in Digit
    /\ ~Exceeds(StripZeros(DigitsOf(t)), IF t[1] = "-" THEN I64MinMag ELSE I64Max)
ValueOfText(t) == I64(t[1] = "-", StripZeros(DigitsOf(t)))

\* the rows of ls that count: not blank, not a comment, an integer
Counted(ls) ==
    {i \in 1..Len(ls) : /\ TrimmedOf(ls[i]) # <<>>
                        /\ TrimmedOf(ls[i])[1] # "#"
                        /\ IsI64Text(TrimmedOf(ls[i]))}
Expected(ls) == {ValueOfText(TrimmedOf(ls[i])) : i \in Counted(ls)}

\* C14: for every readable allow-list file read_allowed_users returns Ok
\* with exactly the integers of the lines that, trimmed, are non-empty, do
\* not start with '#' and parse as i64; this holds after every line of the
\* loop too, and the rows warned about are the unparseable ones only. A
\* file that does not exist gives Ok with the empty set.
C14_LoadsExactly ==
    /\ mainpc = "lines" =>
          /\ set = Expected(SubSeq(file.lines, 1, row))
          /\ warned = {i \in 1..row : /\ TrimmedOf(file.lines[i]) # <<>>
                                      /\ TrimmedOf(file.lines[i])[1] # "#"
                                      /\ i \notin Counted(file.lines)}
    /\ (mainpc = "returned" /\ file.state = "ok") =>
          (ret.ok /\ ret.val = Expected(file.lines))
    /\ (mainpc = "returned" /\ file.state = "missing") => (ret.ok /\ ret.val = {})

\* a file of a comment, an unparseable line and a line with whitespace
\* around an integer has been loaded
C14_Witness ==
    /\ mainpc = "returned"
    /\ file.state = "ok"
    /\ \E i \in 1..Len(file.lines) : starts_with(file.lines[i], "#")
    /\ warned # {}
    /\ \E i \in Counted(file.lines) : file.lines[i] # TrimmedOf(file.lines[i])
    /\ ret.val # {}


\* the handler call has asked is_authorized
Asked(task) ==
    /\ task.cmd \in {"start", "text"}
    /\ task.from.some
    /\ task.pc \in {"start_reply", "message_reply", "done", "error"}

Ended(task) == task.pc \in {"done", "error"}

\* the texts of the replies a handler call has sent
Texts(task) == {task.replies[k].text : k \in 1..Len(task.replies)}

C17_Gate ==
    /\ mainpc = "serving" => allowed_users = ret.val
    /\ mainpc \notin {"serving", "exit"} => \A t \in 1..MaxTasks : tasks[t] = IdleTask
    /\ \A t \in 1..MaxTasks :
          LET task == tasks[t]
              listed == task.user_id.v \in ret.val
          IN /\ Asked(task) => (task.authorized <=> listed)
             /\ (task.cmd = "start" /\ task.from.some) =>
                   /\ Texts(task) \subseteq {IF listed THEN LoginSuccessful ELSE AccessDenied}
                   /\ Len(task.replies) = (IF Ended(task) THEN 1 ELSE 0)
             /\ (task.cmd = "text" /\ task.from.some /\ ~listed) =>
                   /\ Texts(task) \subseteq {AccessDenied}
                   /\ Len(task.replies) = (IF Ended(task) THEN 1 ELSE 0)
             /\ (task.cmd \in {"start", "id", "text"} /\ ~task.from.some) =>
                   task.replies = <<>>

\* C17: once main has built AppState the allow-list is the set that
\* read_allowed_users returned and no step changes it; whatever the
\* interleaving of the handler calls, each is_authorized answers whether the
\* sender's id (as i64) is in that set; a /start of a sender is answered with
\* one message, 'Login successful' if the id is in the set and 'Access
\* denied' if not; a non-command message of a sender not in the set is
\* answered with 'Access denied' only, never with the usage hint. A message
\* without a sender is not answered.
C17_FrontEndGate ==
    /\ []C17_Gate
    /\ [][mainpc = "serving" => allowed_users' = allowed_users]_vars

\* two handler calls in flight: a /start of a listed sender between
\* is_authorized and its reply, a text message of an unlisted sender answered
C17_Witness ==
    \E t1 \in 1..MaxTasks : \E t2 \in 1..MaxTasks :
        /\ tasks[t1].cmd = "start"
        /\ tasks[t1].pc = "start_reply"
        /\ tasks[t1].authorized
        /\ tasks[t2].cmd = "text"
        /\ tasks[t2].pc = "done"
        /\ tasks[t2].from.some
        /\ Texts(tasks[t2]) = {AccessDenied}

====
